---- MODULE Spec2Model ----
(***************************************************************************)
(* A model of the shutdown Signaller (signaller.go): three once-guarded    *)
(* channel closes, the non-blocking queries over them, and the derived     *)
(* contexts with their watcher goroutines.                                 *)
(*                                                                         *)
(* Each goroutine calling a trigger is a caller process whose steps are    *)
(* the steps of sync.Once.Do around close(chan).  A derived context is a   *)
(* slot holding its Done state and the position of its watcher goroutine.  *)
(* All derived contexts share one cancellable parent context, as in the    *)
(* tests (context.WithCancel(context.Background())).                       *)
(***************************************************************************)
EXTENDS Naturals, Sequences, FiniteSets

\* Number of goroutines that call the triggers concurrently when the triggers
\* and queries are studied on their own (SigSpec).
NumCallers == 2
\* Number of goroutines that call the triggers next to the derived contexts.
CtxCallers == 1
\* Number of derived contexts that may be constructed.
MaxScopes == 1

\* Number of derived contexts when two of them are set against each other
\* (PairSpec).
PairScopes == 2
\* Number of goroutines blocked receiving on a wait handle (WaitSpec).
NumWaiters == 2

SigProcs == 1..NumCallers
Procs == 1..CtxCallers
Slots == 1..MaxScopes
PairSlots == 1..PairScopes
Waiters == 1..NumWaiters
\* The one goroutine calling the triggers where the claim is about the derived
\* contexts against each other.
PairProcs == {1}

VARIABLES
    chanClosed,   \* chanClosed[c]: channel c has been closed
    closes,       \* closes[c]: how many times close(c) was executed
    onceDone,     \* onceDone[o]: the done word of sync.Once o
    onceLocked,   \* onceLocked[o]: the mutex of sync.Once o is held
    panicked,     \* a close of a closed channel panicked: the program is dead
    caller,       \* caller[p]: the call goroutine p is in, and where
    lastQuery,    \* the latest query made and the value it returned
    parentDone,   \* the Done channel of the parent context is closed
    scopes,       \* scopes[i]: the i-th derived context and its watcher
    waiter        \* waiter[w]: the handle goroutine w receives on, and where

vars == <<chanClosed, closes, onceDone, onceLocked, panicked, caller,
          lastQuery, parentDone, scopes, waiter>>

sigVars == <<chanClosed, closes, onceDone, onceLocked, panicked>>
ctxVars == <<parentDone, scopes>>

-----------------------------------------------------------------------------
\* The fields of the Signaller struct.

Chans == {"softStopChan", "hardStopChan", "hasStoppedChan"}
Onces == {"softStopOnce", "hardStopOnce", "hasStoppedOnce"}

\* The wait handle accessors return the channel field.
SoftStopChan == "softStopChan"
\* HardStopChan returning the soft stop channel.
HardStopChanIsSoft == "softStopChan"

HardStopChan == "hardStopChan"
HasStoppedChan == "hasStoppedChan"

\* TriggerSoftStop closing the hard stop channel.
TriggerSoftStopClosesHard == << [once |-> "softStopOnce", chan |-> "hardStopChan"] >>

\* A trigger is the sequence of Once.Do(close(chan)) gates it goes through.
TriggerSoftStop == << [once |-> "softStopOnce", chan |-> "softStopChan"] >>

\* TriggerHardStop closing hardStopChan before it calls TriggerSoftStop.
TriggerHardStopHardFirst ==
    << [once |-> "hardStopOnce", chan |-> "hardStopChan"] >> \o TriggerSoftStop

\* TriggerHardStop without the call of TriggerSoftStop.
TriggerHardStopNoSoft == << [once |-> "hardStopOnce", chan |-> "hardStopChan"] >>

TriggerHardStop ==
    TriggerSoftStop \o << [once |-> "hardStopOnce", chan |-> "hardStopChan"] >>

\* TriggerHasStopped escalating into a soft stop.
TriggerHasStoppedAlsoSoft ==
    TriggerSoftStop \o << [once |-> "hasStoppedOnce", chan |-> "hasStoppedChan"] >>

TriggerHasStopped == << [once |-> "hasStoppedOnce", chan |-> "hasStoppedChan"] >>

Triggers == {"TriggerSoftStop", "TriggerHardStop", "TriggerHasStopped"}

Body(op) ==
    CASE op = "TriggerSoftStop" -> TriggerSoftStop
      [] op = "TriggerHardStop" -> TriggerHardStop
      [] op = "TriggerHasStopped" -> TriggerHasStopped

\* The gate caller p is currently at.
Gate(p) == Body(caller[p].op)[caller[p].gate]

-----------------------------------------------------------------------------
\* Channels and sync.Once.

\* A receive on a channel nobody sends on is ready exactly when it is closed.
RecvReady(c) == chanClosed[c]

\* A Once that runs its function on every call.
OnceNeverSkips(o) == FALSE

\* A Once that also skips the function while another caller is running it
\* (the compare-and-swap Once: the loser returns before the function is done).
OnceSkipsInProgress(o) == onceDone[o] \/ onceLocked[o]

\* Once.Do skips the function when the done word is set (read on the fast
\* path, and again under the mutex).
OnceSkips(o) == onceDone[o]

\* A Once whose mutex can never be taken.
OnceMutexNeverFree(o) == FALSE

\* Once.Do's slow path takes the mutex: it waits while another caller holds it.
OnceMutexFree(o) == ~onceLocked[o]

\* A receive that consumes the signal, as on a buffered channel that was
\* sent one value instead of being closed.
RecvConsumes(c) == [chanClosed EXCEPT ![c] = FALSE]

\* The channels after a receive on c has completed: a receive on a closed
\* channel yields the zero value and leaves the channel closed.
Recv(c) == chanClosed

\* The select with its two return values swapped.
SelectDefaultInverted(c) ==
    IF RecvReady(c)
    THEN [r |-> FALSE, chans |-> chanClosed]
    ELSE [r |-> TRUE, chans |-> chanClosed]

\* select { case <-c: return true; default: }; return false
\* The value returned, and the channels afterwards.
SelectDefault(c) ==
    IF RecvReady(c)
    THEN [r |-> TRUE, chans |-> Recv(c)]
    ELSE [r |-> FALSE, chans |-> chanClosed]

IsSoftStopSignalled == SelectDefault(SoftStopChan)
IsHardStopSignalled == SelectDefault(HardStopChan)
IsHasStoppedSignalled == SelectDefault(HasStoppedChan)

Queries == {"IsSoftStopSignalled", "IsHardStopSignalled", "IsHasStoppedSignalled"}

QueryResult(q) ==
    CASE q = "IsSoftStopSignalled" -> IsSoftStopSignalled
      [] q = "IsHardStopSignalled" -> IsHardStopSignalled
      [] q = "IsHasStoppedSignalled" -> IsHasStoppedSignalled

-----------------------------------------------------------------------------
\* Derived contexts.

CtxKinds == {"SoftStopCtx", "HardStopCtx", "HasStoppedCtx"}

\* The watcher of SoftStopCtx selecting on hardStopChan.
SoftStopCtxWatchesHard == "hardStopChan"

\* The Signaller channel the watcher goroutine of each constructor selects on.
SoftStopCtx == "softStopChan"

\* The watcher of HardStopCtx selecting on softStopChan.
HardStopCtxWatchesSoft == "softStopChan"

HardStopCtx == "hardStopChan"

\* The watcher of HasStoppedCtx selecting on softStopChan.
HasStoppedCtxWatchesSoft == "softStopChan"

HasStoppedCtx == "hasStoppedChan"

WatchedChan(kind) ==
    CASE kind = "SoftStopCtx" -> SoftStopCtx
      [] kind = "HardStopCtx" -> HardStopCtx
      [] kind = "HasStoppedCtx" -> HasStoppedCtx

NoScope == [kind |-> "none", done |-> FALSE, released |-> FALSE, watcher |-> "none"]

\* context.WithCancel(parent) followed by the go statement: the child is born
\* cancelled when the parent already is, and its watcher starts at the select.
WithCancel(kind) ==
    [kind |-> kind, done |-> parentDone, released |-> FALSE, watcher |-> "select"]

\* A cancel that is not idempotent: a second call undoes the first.
CancelToggles(sc) == [sc EXCEPT !.done = ~sc.done]

\* cancel(): closes the context's Done channel; a no-op when already closed.
Cancel(sc) == [sc EXCEPT !.done = TRUE]

Exists(i) == scopes[i].kind # "none"

\* One cancel function shared by all the derived contexts.
CancelCtxAll(i) ==
    [j \in DOMAIN scopes |-> IF Exists(j) THEN Cancel(scopes[j]) ELSE scopes[j]]

\* A cancel function that cancels nothing.
CancelCtxNoop(i) == scopes

\* The derived contexts after the cancel function of the i-th has run: it
\* cancels its own context and no other.
CancelCtx(i) == [scopes EXCEPT ![i] = Cancel(scopes[i])]

\* The child derived from context.Background() instead of the parent.
NoChildren == {}

\* The contexts derived from the parent: WithCancel(ctx) registers each with it.
Children == {i \in DOMAIN scopes : Exists(i)}

\* A watcher that waits for the Signaller channel only.
DoneCaseMissing(i) == FALSE

\* The two cases of the watcher's select.
\* case <-ctx.Done(): the derived context is cancelled.
DoneCase(i) == scopes[i].done

\* case <-s.softStopChan (hardStopChan, hasStoppedChan).
SignalCase(i) == RecvReady(WatchedChan(scopes[i].kind))

-----------------------------------------------------------------------------
\* NewSignaller: three open channels, three unused Onces.

NewSignaller ==
    /\ chanClosed = [c \in Chans |-> FALSE]
    /\ closes = [c \in Chans |-> 0]
    /\ onceDone = [o \in Onces |-> FALSE]
    /\ onceLocked = [o \in Onces |-> FALSE]

Idle == [op |-> "none", gate |-> 0, pc |-> "idle"]

\* A goroutine that is not receiving on any handle.
NoWait == [handle |-> "none", pc |-> "idle"]

\* The state after NewSignaller, with callers P and room for the derived
\* contexts S.
InitWith(P, S) ==
    /\ NewSignaller
    /\ panicked = FALSE
    /\ caller = [p \in P |-> Idle]
    /\ lastQuery = [q |-> "none", r |-> FALSE]
    /\ parentDone = FALSE
    /\ scopes = [i \in S |-> NoScope]
    /\ waiter = [w \in Waiters |-> NoWait]

InitOver(P) == InitWith(P, Slots)

Init == InitOver(Procs)

SigInit == InitOver(SigProcs)

-----------------------------------------------------------------------------
\* The trigger calls, step by step.

\* Goroutine p calls a trigger.
Call(p, op) ==
    /\ ~panicked
    /\ caller[p].pc \in {"idle", "returned"}
    /\ caller' = [caller EXCEPT ![p] = [op |-> op, gate |-> 1, pc |-> "fast"]]
    /\ UNCHANGED <<sigVars, lastQuery, ctxVars, waiter>>

\* Where p goes after leaving its current gate: on to the next one, or back
\* to its own code.
Leave(p) ==
    IF caller[p].gate < Len(Body(caller[p].op))
    THEN [caller[p] EXCEPT !.gate = @ + 1, !.pc = "fast"]
    ELSE [caller[p] EXCEPT !.pc = "returned"]

\* Once.Do, fast path: load the done word.
OnceFast(p) ==
    /\ ~panicked
    /\ caller[p].pc = "fast"
    /\ caller' = [caller EXCEPT ![p] =
                    IF OnceSkips(Gate(p).once) THEN Leave(p)
                    ELSE [caller[p] EXCEPT !.pc = "lock"]]
    /\ UNCHANGED <<sigVars, lastQuery, ctxVars, waiter>>

\* Once.Do, slow path: take the mutex and load the done word again; when it
\* is set, unlock and return.
OnceLock(p) ==
    /\ ~panicked
    /\ caller[p].pc = "lock"
    /\ OnceMutexFree(Gate(p).once)
    /\ IF OnceSkips(Gate(p).once)
       THEN /\ caller' = [caller EXCEPT ![p] = Leave(p)]
            /\ UNCHANGED onceLocked
       ELSE /\ caller' = [caller EXCEPT ![p].pc = "close"]
            /\ onceLocked' = [onceLocked EXCEPT ![Gate(p).once] = TRUE]
    /\ UNCHANGED <<chanClosed, closes, onceDone, panicked, lastQuery, ctxVars, waiter>>

\* The function given to Do: close(chan).  Closing a closed channel panics.
Close(p) ==
    /\ ~panicked
    /\ caller[p].pc = "close"
    /\ closes' = [closes EXCEPT ![Gate(p).chan] = @ + 1]
    /\ IF chanClosed[Gate(p).chan]
       THEN /\ panicked' = TRUE
            /\ UNCHANGED <<chanClosed, caller>>
       ELSE /\ chanClosed' = [chanClosed EXCEPT ![Gate(p).chan] = TRUE]
            /\ caller' = [caller EXCEPT ![p].pc = "store"]
            /\ UNCHANGED panicked
    /\ UNCHANGED <<onceDone, onceLocked, lastQuery, ctxVars, waiter>>

\* Once.Do's deferred calls: store the done word, unlock the mutex, return.
OnceStore(p) ==
    /\ ~panicked
    /\ caller[p].pc = "store"
    /\ onceDone' = [onceDone EXCEPT ![Gate(p).once] = TRUE]
    /\ onceLocked' = [onceLocked EXCEPT ![Gate(p).once] = FALSE]
    /\ caller' = [caller EXCEPT ![p] = Leave(p)]
    /\ UNCHANGED <<chanClosed, closes, panicked, lastQuery, ctxVars, waiter>>

\* A step of goroutine p inside a trigger call.
CallerStep(p) == OnceFast(p) \/ OnceLock(p) \/ Close(p) \/ OnceStore(p)

-----------------------------------------------------------------------------
\* The queries.

Query(q) ==
    /\ ~panicked
    /\ lastQuery' = [q |-> q, r |-> QueryResult(q).r]
    /\ chanClosed' = QueryResult(q).chans
    /\ UNCHANGED <<closes, onceDone, onceLocked, panicked, caller, ctxVars, waiter>>

-----------------------------------------------------------------------------
\* Observers blocked on a wait handle.

Handles == {"SoftStopChan", "HardStopChan", "HasStoppedChan"}

\* The channel each accessor hands out.
HandleChan(h) ==
    CASE h = "SoftStopChan" -> SoftStopChan
      [] h = "HardStopChan" -> HardStopChan
      [] h = "HasStoppedChan" -> HasStoppedChan

\* Goroutine w takes a handle and starts a receive on it: <-s.SoftStopChan().
Wait(w, h) ==
    /\ ~panicked
    /\ waiter[w].pc \in {"idle", "woken"}
    /\ waiter' = [waiter EXCEPT ![w] = [handle |-> h, pc |-> "blocked"]]
    /\ UNCHANGED <<sigVars, caller, lastQuery, ctxVars>>

\* The receive of w completes: the channel is closed.
Wake(w) ==
    /\ ~panicked
    /\ waiter[w].pc = "blocked"
    /\ RecvReady(HandleChan(waiter[w].handle))
    /\ chanClosed' = Recv(HandleChan(waiter[w].handle))
    /\ waiter' = [waiter EXCEPT ![w].pc = "woken"]
    /\ UNCHANGED <<closes, onceDone, onceLocked, panicked, caller, lastQuery, ctxVars>>

-----------------------------------------------------------------------------
\* The derived contexts.

\* SoftStopCtx / HardStopCtx / HasStoppedCtx: derive the child and start its
\* watcher goroutine.
NewCtx(i, kind) ==
    /\ ~panicked
    /\ ~Exists(i)
    /\ \A j \in DOMAIN scopes : j < i => Exists(j)
    /\ scopes' = [scopes EXCEPT ![i] = WithCancel(kind)]
    /\ UNCHANGED <<sigVars, caller, lastQuery, parentDone, waiter>>

\* The owner of the parent context cancels it: the parent's Done closes and
\* every child registered with it is cancelled before the call returns.
ParentCancel ==
    /\ ~panicked
    /\ ~parentDone
    /\ parentDone' = TRUE
    /\ scopes' = [i \in DOMAIN scopes |->
                    IF i \in Children THEN Cancel(scopes[i]) ELSE scopes[i]]
    /\ UNCHANGED <<sigVars, caller, lastQuery, waiter>>

\* The caller invokes the cancel function the constructor returned.
Release(i) ==
    /\ ~panicked
    /\ Exists(i)
    /\ scopes' = [CancelCtx(i) EXCEPT ![i].released = TRUE]
    /\ UNCHANGED <<sigVars, caller, lastQuery, parentDone, waiter>>

\* The watcher's select returns through one of its cases that is ready.
WatcherSelect(i) ==
    /\ ~panicked
    /\ scopes[i].watcher = "select"
    /\ \/ /\ DoneCase(i)
          /\ UNCHANGED chanClosed
       \/ /\ SignalCase(i)
          /\ chanClosed' = Recv(WatchedChan(scopes[i].kind))
    /\ scopes' = [scopes EXCEPT ![i].watcher = "cancel"]
    /\ UNCHANGED <<closes, onceDone, onceLocked, panicked, caller, lastQuery, parentDone, waiter>>

\* The watcher calls cancel() and the goroutine ends.
WatcherCancel(i) ==
    /\ ~panicked
    /\ scopes[i].watcher = "cancel"
    /\ scopes' = [CancelCtx(i) EXCEPT ![i].watcher = "exited"]
    /\ UNCHANGED <<sigVars, caller, lastQuery, parentDone, waiter>>

WatcherStep(i) == WatcherSelect(i) \/ WatcherCancel(i)

-----------------------------------------------------------------------------

\* The steps of the trigger calls made by the goroutines of P.
TriggerNext(P) ==
    \/ \E p \in P, op \in Triggers : Call(p, op)
    \/ \E p \in P : OnceFast(p)
    \/ \E p \in P : OnceLock(p)
    \/ \E p \in P : Close(p)
    \/ \E p \in P : OnceStore(p)

QueryNext == \E q \in Queries : Query(q)

\* The steps of the derived contexts S, of their watchers and of the parent.
CtxNextOver(S) ==
    \/ \E i \in S, kind \in CtxKinds : NewCtx(i, kind)
    \/ ParentCancel
    \/ \E i \in S : Release(i)
    \/ \E i \in S : WatcherSelect(i)
    \/ \E i \in S : WatcherCancel(i)

CtxNext == CtxNextOver(Slots)

\* Every operation of the Signaller.
Next == TriggerNext(Procs) \/ QueryNext \/ CtxNext

Spec == Init /\ [][Next]_vars

\* The triggers and the queries alone, under more concurrent callers.
SigNext == TriggerNext(SigProcs) \/ QueryNext

SigSpec == SigInit /\ [][SigNext]_vars

\* The Go scheduler runs every runnable goroutine: a caller inside a trigger
\* and a watcher whose select is ready keep taking steps.
Fairness ==
    /\ \A p \in Procs : WF_vars(CallerStep(p))
    /\ \A i \in Slots : WF_vars(WatcherStep(i))

LiveNext == TriggerNext(Procs) \/ CtxNext

LiveSpec == Init /\ [][LiveNext]_vars /\ Fairness

\* Several derived contexts of one parent, the triggers called by one
\* goroutine.
PairInit == InitWith(PairProcs, PairSlots)

PairNext == TriggerNext(PairProcs) \/ CtxNextOver(PairSlots)

PairSpec == PairInit /\ [][PairNext]_vars

\* The triggers and the queries under fair scheduling of the callers.
SigLiveSpec == SigSpec /\ \A p \in SigProcs : WF_vars(CallerStep(p))

\* The triggers and the observers blocked on the wait handles.  A receive on
\* a closed channel completes: the runtime wakes every receiver.
WaitNext ==
    \/ TriggerNext(Procs)
    \/ \E w \in Waiters, h \in Handles : Wait(w, h)
    \/ \E w \in Waiters : Wake(w)

WaitSpec ==
    /\ Init /\ [][WaitNext]_vars
    /\ \A p \in Procs : WF_vars(CallerStep(p))
    /\ \A w \in Waiters : WF_vars(Wake(w))

TypeOK ==
    /\ chanClosed \in [Chans -> BOOLEAN]
    /\ closes \in [Chans -> 0..2]
    /\ onceDone \in [Onces -> BOOLEAN]
    /\ onceLocked \in [Onces -> BOOLEAN]
    /\ panicked \in BOOLEAN
    /\ parentDone \in BOOLEAN
    /\ \A p \in DOMAIN caller : caller[p].pc \in {"idle", "fast", "lock", "close", "store", "returned"}
    /\ \A i \in DOMAIN scopes : scopes[i].watcher \in {"none", "select", "cancel", "exited"}
    /\ \A w \in Waiters : waiter[w].pc \in {"idle", "blocked", "woken"}

-----------------------------------------------------------------------------
\* The properties.

\* Goroutine p is inside a call of op; its latest call of op has returned.
InCall(p, op) == caller[p].op = op /\ caller[p].pc \notin {"idle", "returned"}
Returned(p, op) == caller[p].op = op /\ caller[p].pc = "returned"

\* The flag each query and each derived context is about.

FlagOfQuery(q) ==
    CASE q = "IsSoftStopSignalled" -> "softStopChan"
      [] q = "IsHardStopSignalled" -> "hardStopChan"
      [] q = "IsHasStoppedSignalled" -> "hasStoppedChan"

FlagOfCtx(kind) ==
    CASE kind = "SoftStopCtx" -> "softStopChan"
      [] kind = "HardStopCtx" -> "hardStopChan"
      [] kind = "HasStoppedCtx" -> "hasStoppedChan"

\* C1: escalation invariant.  In every state reachable under any interleaving
\* of concurrent trigger calls, hardStopChan closed implies softStopChan closed.
C1_Escalation == chanClosed["hardStopChan"] => chanClosed["softStopChan"]

\* A TriggerHardStop caller has just closed hardStopChan while another caller
\* is inside a trigger of its own.
C1_Witness ==
    /\ chanClosed["hardStopChan"]
    /\ \E p, q \in DOMAIN caller :
          /\ p # q
          /\ caller[p].op = "TriggerHardStop" /\ caller[p].pc = "store"
          /\ InCall(q, "TriggerSoftStop")

\* C2: exactly-once broadcast.  No close of a closed channel ever happens (no
\* panic), each channel's close is executed at most once, a channel is closed
\* exactly when its close was executed once, and once a trigger has returned
\* the close of each of its flags has been executed exactly once.
C2_ExactlyOnce ==
    /\ ~panicked
    /\ \A c \in Chans : closes[c] <= 1 /\ (chanClosed[c] <=> closes[c] = 1)
    /\ \A p \in DOMAIN caller :
          /\ Returned(p, "TriggerSoftStop") => closes["softStopChan"] = 1
          /\ Returned(p, "TriggerHardStop") =>
                closes["softStopChan"] = 1 /\ closes["hardStopChan"] = 1
          /\ Returned(p, "TriggerHasStopped") => closes["hasStoppedChan"] = 1

\* Two callers have both completed a trigger of the soft stop flag, one of
\* them through TriggerHardStop.
C2_Witness ==
    \E p, q \in DOMAIN caller :
        /\ p # q
        /\ Returned(p, "TriggerHardStop")
        /\ Returned(q, "TriggerSoftStop")
        /\ closes["softStopChan"] = 1

\* C3: monotonicity.  No step of any operation (trigger, query, constructor,
\* parent cancellation, release, watcher) reopens a closed channel.
C3_Monotonic == [][\A c \in Chans : chanClosed[c] => chanClosed'[c]]_vars

\* Flags are set and a query has received from a closed channel, a watcher
\* has received from one and ended, and a release was called.
C3_Witness ==
    /\ chanClosed["softStopChan"]
    /\ lastQuery.r = TRUE
    /\ \E i \in Slots :
          /\ scopes[i].watcher = "exited"
          /\ scopes[i].released
          /\ chanClosed[FlagOfCtx(scopes[i].kind)]

\* C4: whenever a TriggerHardStop call has returned, softStopChan and
\* hardStopChan are closed and both queries return true.
C4_AfterHardStop ==
    \A p \in DOMAIN caller :
        Returned(p, "TriggerHardStop") =>
            /\ chanClosed["softStopChan"] /\ chanClosed["hardStopChan"]
            /\ IsSoftStopSignalled.r /\ IsHardStopSignalled.r

\* A TriggerHardStop call has returned while a concurrent TriggerSoftStop
\* caller is still inside its call.
C4_Witness ==
    \E p, q \in DOMAIN caller :
        /\ p # q
        /\ Returned(p, "TriggerHardStop")
        /\ InCall(q, "TriggerSoftStop")

\* C5: flag independence.  A step of a TriggerHasStopped call leaves
\* softStopChan and hardStopChan unchanged, a step of a TriggerSoftStop call
\* leaves hardStopChan and hasStoppedChan unchanged, and a step of a
\* TriggerHardStop call leaves hasStoppedChan unchanged.
C5_Frame ==
    [][\A p \in DOMAIN caller :
          caller'[p] # caller[p] =>
            /\ caller'[p].op = "TriggerHasStopped" =>
                  /\ chanClosed'["softStopChan"] = chanClosed["softStopChan"]
                  /\ chanClosed'["hardStopChan"] = chanClosed["hardStopChan"]
            /\ caller'[p].op = "TriggerSoftStop" =>
                  /\ chanClosed'["hardStopChan"] = chanClosed["hardStopChan"]
                  /\ chanClosed'["hasStoppedChan"] = chanClosed["hasStoppedChan"]
            /\ caller'[p].op = "TriggerHardStop" =>
                  chanClosed'["hasStoppedChan"] = chanClosed["hasStoppedChan"]]_vars

\* TriggerHasStopped has returned and soft stop and hard stop are unset.
C5_Witness ==
    /\ \E p \in DOMAIN caller : Returned(p, "TriggerHasStopped")
    /\ chanClosed["hasStoppedChan"]
    /\ ~chanClosed["softStopChan"]
    /\ ~chanClosed["hardStopChan"]

\* A step in which a query returns: its value is the closed state of its
\* flag's channel, and the channels are left as they were.
QueryStepConsistent ==
    lastQuery' # lastQuery =>
        /\ lastQuery'.r = chanClosed[FlagOfQuery(lastQuery'.q)]
        /\ chanClosed' = chanClosed

\* C6: query/handle consistency.  Every query returns true exactly when the
\* channel of its flag is closed at that moment, leaves every channel as it
\* was, and can always be taken (it never blocks).
C6_QueryConsistent ==
    /\ [][QueryStepConsistent]_vars
    /\ [](~panicked => \A q \in Queries : ENABLED Query(q))

\* IsHardStopSignalled has returned false although soft stop is set, and
\* IsSoftStopSignalled would return true.
C6_Witness ==
    /\ lastQuery = [q |-> "IsHardStopSignalled", r |-> FALSE]
    /\ chanClosed["softStopChan"]
    /\ ~chanClosed["hardStopChan"]
    /\ IsSoftStopSignalled.r

\* The triggers that cancel each kind of derived context.
TriggersOfCtx(kind) ==
    CASE kind = "SoftStopCtx" -> {"TriggerSoftStop", "TriggerHardStop"}
      [] kind = "HardStopCtx" -> {"TriggerHardStop"}
      [] kind = "HasStoppedCtx" -> {"TriggerHasStopped"}

\* C7: signal-driven cancellation.  Under fair scheduling, a derived context
\* whose flag is set is eventually cancelled, and so is a derived context
\* whose flag is being triggered: TriggerSoftStop or TriggerHardStop for
\* SoftStopCtx, TriggerHardStop for HardStopCtx, TriggerHasStopped for
\* HasStoppedCtx.

C7_SignalCancels ==
    \A i \in Slots :
        /\ (Exists(i) /\ chanClosed[FlagOfCtx(scopes[i].kind)]) ~> scopes[i].done
        /\ (Exists(i) /\ \E p \in DOMAIN caller :
                            \E op \in TriggersOfCtx(scopes[i].kind) : InCall(p, op))
              ~> scopes[i].done

\* A SoftStopCtx context was cancelled by its watcher after TriggerHardStop
\* alone: the parent is live, release was not called, hard stop is set.
C7_Witness ==
    \E i \in Slots :
        /\ scopes[i].kind = "SoftStopCtx"
        /\ scopes[i].done /\ ~scopes[i].released /\ ~parentDone
        /\ scopes[i].watcher = "exited"
        /\ \E p \in DOMAIN caller : Returned(p, "TriggerHardStop")

\* C8: a derived context is cancelled only if its parent is cancelled, its
\* release function was called, or its own flag is set.
C8_OnlyThreeCauses ==
    \A i \in Slots :
        (Exists(i) /\ scopes[i].done) =>
            \/ parentDone
            \/ scopes[i].released
            \/ chanClosed[FlagOfCtx(scopes[i].kind)]

\* A HardStopCtx context is live after TriggerSoftStop has returned, its
\* watcher still blocked.
C8_Witness ==
    \E i \in Slots :
        /\ scopes[i].kind = "HardStopCtx"
        /\ ~scopes[i].done
        /\ scopes[i].watcher = "select"
        /\ chanClosed["softStopChan"]
        /\ \E p \in DOMAIN caller : Returned(p, "TriggerSoftStop")

\* C9: a derived context is cancelled once its parent is cancelled and once
\* its release function was called, whether or not any flag is set.
C9_ParentAndRelease ==
    \A i \in Slots :
        Exists(i) =>
            /\ parentDone => scopes[i].done
            /\ scopes[i].released => scopes[i].done

\* The parent was cancelled and the derived context with it, with no flag
\* set and no release.
C9_Witness ==
    \E i \in Slots :
        /\ Exists(i) /\ scopes[i].done /\ parentDone
        /\ ~scopes[i].released
        /\ \A c \in Chans : ~chanClosed[c]

\* C10: watcher termination.  Every derived context has one watcher; under
\* fair scheduling the watcher of a cancelled context eventually ends; the
\* watcher of a context that is not cancelled and whose flag is unset stays
\* blocked in its select.
C10_WatcherEnds ==
    /\ \A i \in Slots : (Exists(i) /\ scopes[i].done) ~> (scopes[i].watcher = "exited")
    /\ [](\A i \in Slots :
            /\ Exists(i) <=> scopes[i].watcher # "none"
            /\ (Exists(i) /\ ~scopes[i].done /\ ~chanClosed[FlagOfCtx(scopes[i].kind)])
                  => scopes[i].watcher = "select")

\* A watcher has ended after its context was released, no flag being set and
\* the parent being live.
C10_Witness ==
    \E i \in Slots :
        /\ scopes[i].watcher = "exited"
        /\ scopes[i].released
        /\ ~parentDone
        /\ \A c \in Chans : ~chanClosed[c]

\* The program state of a derived context: all but the record that its
\* release function was called.
CtxState(sc) == [sc EXCEPT !.released = FALSE]

\* C11: release idempotence.  The release function can be called in every
\* state of its derived context, no call panics, and a call made when the
\* context is already cancelled (by the parent, by the watcher's own cancel or
\* by an earlier release) changes nothing of the program state.
C11_ReleaseIdempotent ==
    /\ [][\A i \in DOMAIN scopes :
            (Release(i) /\ scopes[i].done) =>
                /\ UNCHANGED <<sigVars, caller, lastQuery, parentDone, waiter>>
                /\ \A j \in DOMAIN scopes : CtxState(scopes'[j]) = CtxState(scopes[j])]_vars
    /\ [](~panicked /\ \A i \in DOMAIN scopes : Exists(i) => ENABLED Release(i))

\* The release function was called on a context that its parent had
\* cancelled and whose watcher has ended.
C11_Witness ==
    \E i \in Slots :
        /\ scopes[i].released /\ scopes[i].done
        /\ parentDone
        /\ scopes[i].watcher = "exited"

\* The flag each wait handle is about.
FlagOfHandle(h) ==
    CASE h = "SoftStopChan" -> "softStopChan"
      [] h = "HardStopChan" -> "hardStopChan"
      [] h = "HasStoppedChan" -> "hasStoppedChan"

\* C12: broadcast.  Under fair scheduling every observer blocked on a handle
\* whose flag is set unblocks, whether it started waiting before or after the
\* flag was set; an observer's receive leaves every channel as it was; and
\* no observer unblocks on a handle whose flag is unset.
C12_Broadcast ==
    /\ \A w \in Waiters :
          (waiter[w].pc = "blocked" /\ chanClosed[FlagOfHandle(waiter[w].handle)])
             ~> (waiter[w].pc = "woken")
    /\ [][waiter' # waiter => chanClosed' = chanClosed]_vars
    /\ [](\A w \in Waiters :
            waiter[w].pc = "woken" => chanClosed[FlagOfHandle(waiter[w].handle)])

\* Two observers have unblocked on the same handle, and a third party's
\* trigger set the flag.
C12_Witness ==
    \E v, w \in Waiters :
        /\ v # w
        /\ waiter[v] = [handle |-> "SoftStopChan", pc |-> "woken"]
        /\ waiter[w] = [handle |-> "SoftStopChan", pc |-> "woken"]
        /\ closes["softStopChan"] = 1

\* C13: the triggers are total.  Under fair scheduling every trigger call
\* returns, no call panics, and a caller that cannot take a step is waiting
\* for the mutex of a Once that another caller holds while it closes the
\* channel of that same flag.
C13_TriggersTotal ==
    /\ \A p \in SigProcs :
          (caller[p].pc \notin {"idle", "returned"}) ~> (caller[p].pc = "returned")
    /\ [](~panicked)
    /\ [](\A p \in DOMAIN caller :
            (caller[p].pc \notin {"idle", "returned"} /\ ~ENABLED CallerStep(p)) =>
                /\ caller[p].pc = "lock"
                /\ \E q \in DOMAIN caller :
                      /\ q # p
                      /\ caller[q].pc \in {"close", "store"}
                      /\ Gate(q).once = Gate(p).once)

\* A TriggerHardStop caller waits at the soft stop Once while another caller
\* is inside it.
C13_Witness ==
    \E p \in DOMAIN caller :
        /\ caller[p].op = "TriggerHardStop"
        /\ caller[p].pc = "lock"
        /\ ~ENABLED CallerStep(p)

\* C14: the derived-context operations never touch the flags.  A step of a
\* constructor, of the parent's cancellation, of a release function or of a
\* watcher leaves the channels and the Onces of the Signaller unchanged.
C14_CtxFrame ==
    [][(scopes' # scopes \/ parentDone' # parentDone) =>
          /\ chanClosed' = chanClosed
          /\ closes' = closes
          /\ onceDone' = onceDone
          /\ onceLocked' = onceLocked]_vars

\* A context was cancelled by its parent, released, and its watcher has
\* ended, all flags still unset.
C14_Witness ==
    /\ parentDone
    /\ \E i \in Slots : scopes[i].released /\ scopes[i].watcher = "exited"
    /\ \A c \in Chans : ~chanClosed[c] /\ closes[c] = 0

\* C15: fresh state.  As long as no trigger has been called, the three
\* channels are open and the three queries return false.
C15_Fresh ==
    (\A p \in DOMAIN caller : caller[p] = Idle) =>
        /\ \A c \in Chans : ~chanClosed[c]
        /\ ~IsSoftStopSignalled.r
        /\ ~IsHardStopSignalled.r
        /\ ~IsHasStoppedSignalled.r

\* No trigger has been called and a query has returned false.
C15_Witness ==
    /\ \A p \in DOMAIN caller : caller[p] = Idle
    /\ lastQuery = [q |-> "IsHasStoppedSignalled", r |-> FALSE]

\* C16: a derived context's cancellation goes neither up nor sideways.  A
\* release step and a watcher's cancel step leave the parent and every other
\* derived context as they were, and a derived context whose parent is live,
\* whose release was not called and whose flag is unset is not cancelled,
\* whatever happened to the other contexts of the same parent.
C16_NoPropagation ==
    /\ [][\A i \in DOMAIN scopes :
            (Release(i) \/ WatcherCancel(i)) =>
                /\ parentDone' = parentDone
                /\ \A j \in DOMAIN scopes : j # i => scopes'[j] = scopes[j]]_vars
    /\ [](\A j \in DOMAIN scopes :
            (/\ Exists(j)
             /\ ~parentDone
             /\ ~scopes[j].released
             /\ ~chanClosed[FlagOfCtx(scopes[j].kind)]) => ~scopes[j].done)

\* Of two contexts of the same kind and parent one was released and is
\* cancelled; the other is live, and so is the parent.
C16_Witness ==
    \E i, j \in DOMAIN scopes :
        /\ i # j
        /\ scopes[i].done /\ scopes[i].released
        /\ Exists(j) /\ ~scopes[j].done
        /\ scopes[j].kind = scopes[i].kind
        /\ ~parentDone

\* C17: a trigger never returns before its flag is set.  When a
\* TriggerSoftStop call has returned softStopChan is closed, when a
\* TriggerHasStopped call has returned hasStoppedChan is closed, and a
\* TriggerHardStop caller that is at (or past) the hard stop gate finds
\* softStopChan closed.
C17_SetBeforeReturn ==
    \A p \in DOMAIN caller :
        /\ Returned(p, "TriggerSoftStop") => chanClosed["softStopChan"]
        /\ Returned(p, "TriggerHasStopped") => chanClosed["hasStoppedChan"]
        /\ (caller[p].op = "TriggerHardStop" /\ Gate(p).chan = "hardStopChan")
              => chanClosed["softStopChan"]

\* A TriggerSoftStop call has returned and a TriggerHardStop caller, past the
\* soft stop gate, is about to close hardStopChan.
C17_Witness ==
    \E p, q \in DOMAIN caller :
        /\ p # q
        /\ Returned(p, "TriggerSoftStop")
        /\ caller[q].op = "TriggerHardStop"
        /\ caller[q].gate = 2 /\ caller[q].pc = "close"

\* Late derivation: a constructor is called only when the flag of its kind is
\* already set, the parent is never cancelled and no release function is
\* called.
LateCtx(i, kind) == NewCtx(i, kind) /\ chanClosed[FlagOfCtx(kind)]

LateNext ==
    \/ TriggerNext(Procs)
    \/ \E i \in Slots, kind \in CtxKinds : LateCtx(i, kind)
    \/ \E i \in Slots : WatcherSelect(i)
    \/ \E i \in Slots : WatcherCancel(i)

LateSpec == Init /\ [][LateNext]_vars /\ Fairness

\* C18: late derivation.  Under fair scheduling a context derived when its
\* flag is already set is eventually cancelled and its watcher ends, with no
\* parent cancellation and no release.
C18_LateDerivation ==
    \A i \in Slots :
        Exists(i) ~> (scopes[i].done /\ scopes[i].watcher = "exited")

\* A SoftStopCtx context derived after TriggerHardStop alone has returned
\* from its constructor and is not cancelled yet.
C18_Witness ==
    \E i \in Slots :
        /\ scopes[i].kind = "SoftStopCtx"
        /\ ~scopes[i].done
        /\ scopes[i].watcher = "select"
        /\ closes["hardStopChan"] = 1
        /\ \A p \in DOMAIN caller : caller[p].op = "TriggerHardStop"

\* C19 as stated: a watcher that has ended has cancelled its context, and
\* every context that is not cancelled has its watcher waiting in its select.
C19_Original ==
    \A i \in DOMAIN scopes :
        /\ scopes[i].watcher = "exited" => scopes[i].done
        /\ (Exists(i) /\ ~scopes[i].done) => scopes[i].watcher = "select"

\* C19: no signal is missed by a watcher that has ended.  A watcher that has
\* ended has cancelled its context, and every context that is not cancelled
\* has its watcher alive: waiting in its select or, its flag being set, past
\* the select and about to call cancel.
C19_WatcherAlive ==
    \A i \in DOMAIN scopes :
        /\ scopes[i].watcher = "exited" => scopes[i].done
        /\ (Exists(i) /\ ~scopes[i].done) =>
              \/ scopes[i].watcher = "select"
              \/ /\ scopes[i].watcher = "cancel"
                 /\ chanClosed[FlagOfCtx(scopes[i].kind)]

\* The watcher of a HasStoppedCtx context has ended after cancelling it on
\* the signal: the parent is live and release was not called.
C19_Witness ==
    \E i \in Slots :
        /\ scopes[i].kind = "HasStoppedCtx"
        /\ scopes[i].watcher = "exited" /\ scopes[i].done
        /\ ~scopes[i].released /\ ~parentDone

\* The triggers that set each flag.
TriggersOfFlag(c) ==
    CASE c = "softStopChan" -> {"TriggerSoftStop", "TriggerHardStop"}
      [] c = "hardStopChan" -> {"TriggerHardStop"}
      [] c = "hasStoppedChan" -> {"TriggerHasStopped"}

\* C20: no spurious signalling.  Every step that sets a flag is the close
\* step of a goroutine inside a trigger call for that flag; no query,
\* constructor, parent cancellation, release or watcher step sets a flag.
C20_NoSpurious ==
    [][\A c \in Chans :
          (~chanClosed[c] /\ chanClosed'[c]) =>
              \E p \in DOMAIN caller :
                  /\ caller[p].op \in TriggersOfFlag(c)
                  /\ caller[p].pc = "close"
                  /\ caller'[p].pc = "store"]_vars

\* All three flags are set, next to a cancelled parent, a context whose
\* watcher has ended and a query that returned true.
C20_Witness ==
    /\ \A c \in Chans : chanClosed[c]
    /\ parentDone
    /\ lastQuery.r = TRUE
    /\ \E i \in Slots : scopes[i].watcher = "exited"

====
